---- MODULE Spec2Model ----
(***************************************************************************)
(* A model of the engagement-plan guest manager (React front end over a    *)
(* hosted database client, with a bundled JSON list and browser local      *)
(* storage as the local-only fallback).                                    *)
(*                                                                         *)
(* JavaScript values are encoded so that every field keeps one type:       *)
(*   null / undefined      the string "null"                               *)
(*   boolean | null        "true", "false", "null"                         *)
(*   a guest's full_name   a tuple of numbers: <<k>> is the k-th base      *)
(*                         name, Append(n, j) is `${n} - Kisi ${j}`        *)
(*   localStorage objects  functions whose DOMAIN is the set of keys       *)
(***************************************************************************)
EXTENDS Integers, Sequences, FiniteSets, TLC

NULL == "null"

Tri == {"true", "false", NULL}

(***************************************************************************)
(* Bounds of the model.                                                    *)
(***************************************************************************)
\* user gestures (handler invocations) in one behaviour
MaxOps == 2
\* backend requests that may be in flight together
MaxInflight == 2
\* at most this many fixed objects on the floor plan
MaxObjects == 1
\* gestures in a behaviour that works with the fixed objects offline
MaxObjOps == 5
\* characters in a searched text and in a search query
MaxLen == 2
\* requests in flight together in a behaviour that resets a floor plan of
\* three desks (resetPositions sends one upsert for each desk)
MaxResetInflight == 3

(***************************************************************************)
(* Inputs the user or the environment may supply.                          *)
(***************************************************************************)
Notes == {"", "n1"}
Outcomes == {"ok", "error", "throw"}

\* db.json: the bundled guest list (camelCase raw guests)
Bundle ==
  << [fullName |-> <<1>>, personCount |-> 2, deskNo |-> 1, giftCount |-> 1,
      description |-> NULL],
     [fullName |-> <<2>>, personCount |-> 1, deskNo |-> 2, giftCount |-> 0,
      description |-> "d0"] >>

\* the guests table of the backend when the page is first opened
InitialRows ==
  { [id |-> 1, full_name |-> <<1>>, person_count |-> 2, desk_no |-> 1,
     gift_count |-> 1, description |-> NULL, is_attended |-> "false",
     display_order |-> 0],
    [id |-> 2, full_name |-> <<2>>, person_count |-> 1, desk_no |-> 2,
     gift_count |-> 0, description |-> "d0", is_attended |-> NULL,
     display_order |-> 0] }

VARIABLES
  supabase,        \* TRUE iff the client is configured (both env vars set)
  guests,          \* App state: the guest list (an array)
  loading,         \* App state
  error,           \* App state: NULL or the load-failure message
  isOffline,       \* App state
  expandedDesks,   \* App state: set of desk numbers
  lsAttendance,    \* localStorage engagement_attendance: name -> Tri
  lsNotes,         \* localStorage engagement_notes: name -> note
  dbGuests,        \* backend table guests: a set of rows
  dbNextId,        \* backend serial of guests.id
  inflight,        \* backend requests sent and not yet answered: seq -> request
  nextSeq,         \* number of requests issued so far
  pc,              \* the handler that is awaiting a request, or idle
  nOps,            \* gestures so far
  lsOrder,         \* localStorage engagement_guest_order: desk -> ids
  createDeskError, \* CreateDeskDialog state: error
  createDeskCalls, \* log: the desk numbers onCreateDesk was called with
  attSet,          \* log: name -> attendance last set by toggle or save
  lastOp,          \* log: the handler invoked last and its subject
  lastResult,      \* log: what the last answered helper call returned
  panel,           \* the part of the page this behaviour works with
  positions,       \* useTablePositions state: desk -> [x, y]
  lsPositions,     \* localStorage engagement_table_positions: desk -> [x, y]
  dbPositions,     \* backend table table_positions: desk_no -> [x, y]
  posLoaded,       \* useTablePositions state: isLoaded
  posPc,           \* the mount effect of useTablePositions: where it is
  posLog,          \* log: desk -> position of its last drag; failed upserts;
                   \* local storage when the page was opened; how the load went
  objects,         \* useFixedObjects state: the objects (an array)
  lsObjects,       \* localStorage engagement_fixed_objects
  dbObjects,       \* backend table fixed_objects: a set of rows
  objLoaded,       \* useFixedObjects state: isLoaded
  objPc,           \* the mount effect of useFixedObjects: where it is
  objNextId,       \* ids handed out so far (generateId and the backend's)
  objLog,          \* log: id -> rotation when first seen, rotate gestures
  searchQuery,     \* App state: the search query (a sequence of characters)
  searchText,      \* the text of a guest the filter looks at
  searchHit,       \* what turkishIncludes returned for that text and query
  splitNames,      \* EditGuestDialog state: the names typed for a split
  noteSet,         \* log: name -> note text last saved from the edit dialog
  bundleValid,     \* TRUE iff the imported db.json is an array of raw guests
  dialogDeskNo     \* CreateGuestDialog state: deskNo

vars == << supabase, guests, loading, error, isOffline, expandedDesks,
           lsAttendance, lsNotes, dbGuests, dbNextId, inflight, nextSeq, pc,
           nOps, lsOrder, createDeskError, createDeskCalls, attSet, lastOp,
           lastResult, panel, positions, lsPositions, dbPositions, posLoaded,
           posPc, posLog, objects, lsObjects, dbObjects, objLoaded, objPc,
           objNextId, objLog, searchQuery, searchText, searchHit,
           splitNames, noteSet, bundleValid, dialogDeskNo >>

appVars == << guests, loading, error, isOffline, expandedDesks >>
lsVars == << lsAttendance, lsNotes, lsOrder >>
dbVars == << dbGuests, dbNextId >>
netVars == << inflight, nextSeq >>
deskDlgVars == << createDeskError, createDeskCalls >>
guestLogVars == << attSet, lastOp, lastResult >>
\* what a handler of the guest list leaves alone on the floor plan
objVars == << objects, lsObjects, dbObjects, objLoaded, objPc, objNextId,
             objLog >>
searchVars == << searchQuery, searchText, searchHit >>
floorOnly == << panel, dbPositions, posLoaded, posPc, posLog, objVars,
               searchVars, splitNames, bundleValid, dialogDeskNo >>
\* the same and the log of saved notes, which only the save writes
floorRest == << floorOnly, noteSet >>
\* what a handler of the floor plan leaves alone in the guest list
guestCore == << supabase, appVars, lsVars, dbVars, pc, deskDlgVars, attSet,
               lastOp, searchVars, splitNames, noteSet, bundleValid,
               dialogDeskNo >>
guestRest == << guestCore, lastResult >>

(***************************************************************************)
(* Generic helpers.                                                        *)
(***************************************************************************)
MapPut(m, k, v) == [x \in (DOMAIN m) \cup {k} |-> IF x = k THEN v ELSE m[x]]

MapDel(m, k) == [x \in (DOMAIN m) \ {k} |-> m[x]]

EmptyMap == [x \in {} |-> NULL]

Range(s) == {s[i] : i \in DOMAIN s}

SetMax(S) == CHOOSE m \in S : \A x \in S : x <= m

\* Array.prototype.filter((g) => g.id !== id)
RECURSIVE WithoutId(_, _)
WithoutId(gs, id) ==
  IF gs = <<>> THEN <<>>
  ELSE IF Head(gs).id # id THEN <<Head(gs)>> \o WithoutId(Tail(gs), id)
       ELSE WithoutId(Tail(gs), id)

\* Math.max(...guests.map((g) => g.id), 0)
MaxId(gs) == SetMax({gs[i].id : i \in DOMAIN gs} \cup {0})

\* JavaScript { ...row, ...updates }
Spread(row, updates) ==
  [f \in (DOMAIN row) \cup (DOMAIN updates) |->
     IF f \in DOMAIN updates THEN updates[f] ELSE row[f]]

(***************************************************************************)
(* lib/utils.ts: turkishIncludes.  A string is a sequence of characters;   *)
(* the characters outside ASCII are written by name: "Idot" is U+0130,     *)
(* "idotless" U+0131, "Scedilla" U+015E, "scedilla" U+015F and "dotabove"  *)
(* the combining U+0307.                                                   *)
(***************************************************************************)
\* str.replace(/from/g, to)
ReplaceAll(str, from, to) ==
  [k \in DOMAIN str |-> IF str[k] = from THEN to ELSE str[k]]

\* String.prototype.toLowerCase of one character (locale-independent: I
\* gives i, U+0130 gives i followed by the combining dot)
LowerOf(c) ==
  CASE c = "I" -> << "i" >>
    [] c = "Idot" -> << "i", "dotabove" >>
    [] c = "S" -> << "s" >>
    [] c = "Scedilla" -> << "scedilla" >>
    [] OTHER -> << c >>

RECURSIVE toLowerCase(_)
toLowerCase(str) ==
  IF str = <<>> THEN <<>> ELSE LowerOf(Head(str)) \o toLowerCase(Tail(str))

turkishLower(str) ==
  toLowerCase(ReplaceAll(ReplaceAll(str, "Idot", "i"), "I", "idotless"))

\* String.prototype.includes
Includes(text, search) ==
  \E k \in 0..(Len(text) - Len(search)) :
    SubSeq(text, k + 1, k + Len(search)) = search

turkishIncludes(text, search) ==
  Includes(turkishLower(text), turkishLower(search))

(***************************************************************************)
(* lib/supabase.ts: local storage helpers.                                 *)
(***************************************************************************)
\* current[guestName] = isAttended; setItem(JSON.stringify(current))
\* a store that keeps only the guests who attend
saveLocalAttendanceIfTrue(store, guestName, isAttended) ==
  IF isAttended = "true" THEN MapPut(store, guestName, isAttended)
  ELSE MapDel(store, guestName)

saveLocalAttendance(store, guestName, isAttended) ==
  MapPut(store, guestName, isAttended)

\* if (note) current[guestName] = note; else delete current[guestName]
saveLocalNotes(store, guestName, note) ==
  IF note # "" THEN MapPut(store, guestName, note) ELSE MapDel(store, guestName)

\* a conversion that numbers the guests from 0
convertRawGuestFromZero(raw, index, localAttendance, localNotes) ==
  [ id |-> index,
    full_name |-> raw.fullName,
    person_count |-> raw.personCount,
    desk_no |-> raw.deskNo,
    gift_count |-> raw.giftCount,
    description |->
      IF raw.fullName \in DOMAIN localNotes /\ localNotes[raw.fullName] # ""
      THEN localNotes[raw.fullName] ELSE raw.description,
    is_attended |->
      IF raw.fullName \in DOMAIN localAttendance
      THEN localAttendance[raw.fullName] ELSE NULL ]

\* index is 0-based, as in Array.prototype.map
convertRawGuest(raw, index, localAttendance, localNotes) ==
  [ id |-> index + 1,
    full_name |-> raw.fullName,
    person_count |-> raw.personCount,
    desk_no |-> raw.deskNo,
    gift_count |-> raw.giftCount,
    \* localNotes[raw.fullName] || raw.description
    description |->
      IF raw.fullName \in DOMAIN localNotes /\ localNotes[raw.fullName] # ""
      THEN localNotes[raw.fullName] ELSE raw.description,
    \* localAttendance[raw.fullName] ?? null
    is_attended |->
      IF raw.fullName \in DOMAIN localAttendance
      THEN localAttendance[raw.fullName] ELSE NULL ]


(***************************************************************************)
(* lib/supabase.ts: what each backend helper returns for the outcome of    *)
(* its request: "ok", "error" (the client resolves with an error result)   *)
(* or "throw" (the awaited call rejects).                                  *)
(***************************************************************************)
createGuestInDB(outcome, row) ==
  IF outcome = "ok" THEN [value |-> "row", row |-> row] ELSE [value |-> NULL]

updateGuestInDB(outcome) ==
  [value |-> IF outcome = "ok" THEN "true" ELSE "false"]

deleteGuestFromDB(outcome) ==
  [value |-> IF outcome = "ok" THEN "true" ELSE "false"]

\* await Promise.all(updates); return true: only a rejection reaches the catch
updateGuestOrderInDB(outcome) ==
  [value |-> IF outcome = "throw" THEN "false" ELSE "true"]

(***************************************************************************)
(* The backend table guests.                                               *)
(***************************************************************************)
RECURSIVE NameLess(_, _)
NameLess(a, b) ==
  IF a = <<>> THEN b # <<>>
  ELSE IF b = <<>> THEN FALSE
  ELSE IF Head(a) # Head(b) THEN Head(a) < Head(b)
  ELSE NameLess(Tail(a), Tail(b))

\* order by desk_no, display_order, full_name (ties: by id)
RowLess(a, b) ==
  IF a.desk_no # b.desk_no THEN a.desk_no < b.desk_no
  ELSE IF a.display_order # b.display_order
       THEN a.display_order < b.display_order
  ELSE IF a.full_name # b.full_name THEN NameLess(a.full_name, b.full_name)
  ELSE a.id < b.id

RECURSIVE SortRows(_)
SortRows(rows) ==
  IF rows = {} THEN <<>>
  ELSE LET first == CHOOSE r \in rows : \A o \in rows \ {r} : RowLess(r, o)
       IN  <<first>> \o SortRows(rows \ {first})

\* update(updates).eq('id', id)
DbUpdate(rows, id, updates) ==
  {IF r.id = id THEN Spread(r, updates) ELSE r : r \in rows}

\* delete().eq('id', id)
DbDelete(rows, id) == {r \in rows : r.id # id}

\* insert({...}).select().single(): display_order: guest.display_order || 0
DbInsertRow(guest, id) ==
  Spread([display_order |-> 0], Spread(guest, [id |-> id]))

(***************************************************************************)
(* The network: a request is sent once by Send and answered once.          *)
(***************************************************************************)
Online == supabase /\ ~isOffline

InflightBound == IF panel = "reset" THEN MaxResetInflight ELSE MaxInflight

CanSend == Cardinality(DOMAIN inflight) < InflightBound

Send(req) ==
  /\ CanSend
  /\ inflight' = MapPut(inflight, nextSeq + 1, req)
  /\ nextSeq' = nextSeq + 1

\* a retry: the answered request is sent again under a new number
AnsweredAndResent(seq) ==
  [q \in ((DOMAIN inflight) \ {seq}) \cup {0 - seq} |->
     IF q = 0 - seq THEN inflight[seq] ELSE inflight[q]]

\* the answered request leaves the network; nothing puts it back
Answered(seq) == MapDel(inflight, seq)

Idle == pc.op = "idle"

IdlePc == [op |-> "idle"]

\* the gestures of a behaviour: without a backend the fixed objects have no
\* requests to interleave with, and longer behaviours are explored
OpsBound == IF panel = "objects" /\ ~supabase THEN MaxObjOps ELSE MaxOps

Gesture == nOps < OpsBound /\ nOps' = nOps + 1

(***************************************************************************)
(* hooks/useTablePositions.ts: the position map and its effects.           *)
(***************************************************************************)
spacingX == 220
spacingY == 220
offsetX == 150
offsetY == 150

\* Math.ceil(Math.sqrt(n))
CeilSqrt(n) == CHOOSE c \in 0..n : c * c >= n /\ (c = 0 \/ (c - 1) * (c - 1) < n)

RECURSIVE SortSet(_)
SortSet(S) ==
  IF S = {} THEN <<>>
  ELSE LET m == CHOOSE x \in S : \A y \in S : x <= y
       IN  <<m>> \o SortSet(S \ {m})

\* Array.from(new Set(guests.map((g) => g.desk_no))).sort((a, b) => a - b)
DeskNumbers(gs) == SortSet({gs[i].desk_no : i \in DOMAIN gs})

\* a grid of one row: every desk at y = offsetY
generateDefaultPositionsOneRow(deskNumbers) ==
  LET Index(d) == (CHOOSE k \in DOMAIN deskNumbers : deskNumbers[k] = d) - 1
  IN  [d \in Range(deskNumbers) |->
         [x |-> Index(d) * spacingX + offsetX, y |-> offsetY]]

\* generateDefaultPositions: i is the 0-based index in deskNumbers
generateDefaultPositions(deskNumbers) ==
  LET cols == CeilSqrt(Len(deskNumbers))
      Index(d) == (CHOOSE k \in DOMAIN deskNumbers : deskNumbers[k] = d) - 1
  IN  [d \in Range(deskNumbers) |->
         [x |-> (Index(d) % cols) * spacingX + offsetX,
          y |-> (Index(d) \div cols) * spacingY + offsetY]]

\* a deskNumbers effect that gives every desk its default position
MergePositionsAllDefaults(prev, deskNumbers) ==
  generateDefaultPositions(deskNumbers)

\* the deskNumbers effect: merged[deskNo] = prev[deskNo] || defaults[deskNo]
MergePositions(prev, deskNumbers) ==
  LET defaultPositions == generateDefaultPositions(deskNumbers)
  IN  [d \in Range(deskNumbers) |->
         IF d \in DOMAIN prev THEN prev[d] ELSE defaultPositions[d]]

\* the save effect: if (isLoaded) saveLocalPositions(positions)
SavedAfterRender(isLoaded, newPositions, stored) ==
  IF isLoaded THEN newPositions ELSE stored

\* { ...a, ...b }
SpreadMap(a, b) ==
  [d \in (DOMAIN a) \cup (DOMAIN b) |-> IF d \in DOMAIN b THEN b[d] ELSE a[d]]

\* the useState initializer: saved positions over the defaults
InitialPositions(saved, deskNumbers) ==
  IF DOMAIN saved # {}
  THEN SpreadMap(generateDefaultPositions(deskNumbers), saved)
  ELSE generateDefaultPositions(deskNumbers)

\* FloorPlan: position={tablePositions[deskNo] || { x: 100, y: 100 }}
TablePosition(tablePositions, deskNo) ==
  IF deskNo \in DOMAIN tablePositions
  THEN tablePositions[deskNo]
  ELSE [x |-> 100, y |-> 100]

\* the effects that follow a render in which the guest list may have changed
PositionsFollow ==
  IF DeskNumbers(guests') # DeskNumbers(guests)
  THEN /\ positions' = MergePositions(positions, DeskNumbers(guests'))
       /\ lsPositions' = SavedAfterRender(posLoaded, positions', lsPositions)
  ELSE UNCHANGED << positions, lsPositions >>

(***************************************************************************)
(* App.tsx: fetchGuests.                                                   *)
(***************************************************************************)
DeskSet(gs) == {gs[i].desk_no : i \in DOMAIN gs}

\* rawGuests.map((raw, index) => convertRawGuest(raw, index))
LocalGuests ==
  [i \in 1..Len(Bundle) |->
     convertRawGuest(Bundle[i], i - 1, lsAttendance, lsNotes)]

\* setError('Veri yuklenemedi.')
LoadFailureMessage == "Veri yuklenemedi."

\* a fetchGuests without its finally block: loading stays as it is when the
\* fallback throws
LoadingAfterFallbackNoFinally(before, thrown) == IF thrown THEN before ELSE FALSE

\* finally { setLoading(false) }
LoadingAfterFallback(before, thrown) == FALSE

\* the fallback to db.json: rawGuests.map(convertRawGuest) throws when the
\* imported value is not an array of raw guests
LocalFallback ==
  /\ isOffline' = TRUE
  /\ IF bundleValid
     THEN /\ guests' = LocalGuests
          /\ expandedDesks' = DeskSet(LocalGuests)
          /\ error' = NULL
     ELSE /\ error' = LoadFailureMessage
          /\ UNCHANGED << guests, expandedDesks >>
  /\ loading' = LoadingAfterFallback(TRUE, ~bundleValid)

\* fetchGuests up to its first await: setLoading(true); setError(null);
\* then the query is sent, or (no client) the fallback runs in the same turn
StartFetchGuests ==
  /\ IF supabase
     THEN /\ Send([kind |-> "select", attempt |-> 1])
          /\ pc' = [op |-> "fetch", seq |-> nextSeq + 1]
          /\ loading' = TRUE
          /\ error' = NULL
          /\ UNCHANGED << guests, isOffline, expandedDesks >>
     ELSE /\ LocalFallback
          /\ pc' = IdlePc
          /\ UNCHANGED netVars
  /\ lastOp' = [op |-> "fetchGuests"]
  /\ UNCHANGED << floorRest, supabase, lsVars, dbVars, deskDlgVars, attSet,
                  lastResult >>
  /\ PositionsFollow

\* called from the mount effect
FetchGuests ==
  /\ pc.op = "mount"
  /\ StartFetchGuests
  /\ UNCHANGED nOps

\* called from the button shown with the error message
RetryFetchGuests ==
  /\ Idle
  /\ error # NULL
  /\ Gesture
  /\ StartFetchGuests

\* the guests query is answered
FetchGuestsDone(outcome) ==
  /\ pc.op = "fetch"
  /\ pc.seq \in DOMAIN inflight
  /\ inflight' = Answered(pc.seq)
  /\ IF outcome = "ok"
     THEN /\ guests' = SortRows(dbGuests)
          /\ isOffline' = FALSE
          /\ expandedDesks' = {r.desk_no : r \in dbGuests}
          /\ loading' = FALSE
          /\ UNCHANGED error
     ELSE \* catch: setIsOffline(true), then the db.json fallback
          LocalFallback
  /\ pc' = IdlePc
  /\ lastResult' = [helper |-> "fetchGuests", failed |-> outcome # "ok",
                    value |-> IF outcome = "ok" THEN "rows" ELSE "offline"]
  /\ UNCHANGED << floorRest, supabase, lsVars, dbVars, nextSeq, nOps,
                  deskDlgVars, attSet, lastOp >>
  /\ PositionsFollow

\* the ids of the objects of an array
ObjectIds(objs) == {objs[i].id : i \in DOMAIN objs}

\* the rotation log of objects that have just been read from a store
FreshLog(objs) ==
  [id \in ObjectIds(objs) |->
     [rot0 |-> (CHOOSE o \in Range(objs) : o.id = id).rotation, nrot |-> 0]]

\* the page is opened again: React state is rebuilt, local storage and the
\* backend stay, requests already sent are still answered
\* CreateGuestDialog: useState(defaultDeskNo ?? existingDeskNumbers[0] ?? 1);
\* App passes no defaultDeskNo, and
\* existingDeskNumbers={deskNumbers.length > 0 ? deskNumbers : [1]}
InitialDeskNo(deskNumbers) ==
  (IF Len(deskNumbers) > 0 THEN deskNumbers ELSE <<1>>)[1]

Reload ==
  /\ Idle
  /\ ~loading
  /\ Gesture
  /\ guests' = <<>>
  /\ loading' = TRUE
  /\ error' = NULL
  /\ isOffline' = FALSE
  /\ expandedDesks' = {}
  /\ createDeskError' = ""
  /\ pc' = [op |-> "mount"]
  /\ lastOp' = [op |-> "reload"]
  \* useTablePositions is constructed again: the initializer reads local
  \* storage, then the deskNumbers effect runs with deskNumbers = []
  /\ positions' = MergePositions(InitialPositions(lsPositions, <<>>), <<>>)
  /\ posLoaded' = FALSE
  /\ posPc' = [op |-> "load"]
  \* useFixedObjects is constructed again from local storage
  /\ objects' = lsObjects
  /\ objLoaded' = FALSE
  /\ objPc' = [op |-> "load"]
  /\ posLog' = [lastDrag |-> EmptyMap, failed |-> FALSE,
                saved |-> lsPositions, read |-> "none"]
  /\ objLog' = FreshLog(lsObjects)
  /\ searchQuery' = <<>>
  /\ searchHit' = turkishIncludes(searchText, <<>>)
  /\ splitNames' = [id |-> 0, names |-> <<>>]
  \* CreateGuestDialog is constructed again while the guest list is empty
  /\ dialogDeskNo' = InitialDeskNo(<<>>)
  /\ UNCHANGED << panel, lsPositions, dbPositions, lsObjects, dbObjects,
                  objNextId, supabase, lsVars, dbVars, netVars,
                  createDeskCalls, attSet, lastResult, searchText, noteSet,
                  bundleValid >>

(***************************************************************************)
(* App.tsx: handleToggleAttendance.                                        *)
(***************************************************************************)
\* a toggle that goes from true to false instead of null
newStatusToFalse(guest) == IF guest.is_attended = "true" THEN "false" ELSE "true"

\* guest.is_attended === true ? null : true
newStatus(guest) == IF guest.is_attended = "true" THEN NULL ELSE "true"

\* prev.map((g) => g.id === id ? { ...g, ...updates } : g)
WithUpdates(gs, id, updates) ==
  [i \in DOMAIN gs |-> IF gs[i].id = id THEN Spread(gs[i], updates) ELSE gs[i]]

HandleToggleAttendance(i) ==
  /\ Idle
  /\ i \in DOMAIN guests
  /\ Gesture
  /\ LET guest == guests[i]
         st == newStatus(guest)
     IN  /\ guests' = WithUpdates(guests, guest.id, [is_attended |-> st])
         /\ lsAttendance' = saveLocalAttendance(lsAttendance, guest.full_name, st)
         /\ attSet' = MapPut(attSet, guest.full_name, st)
         /\ lastOp' = [op |-> "toggle", id |-> guest.id]
         /\ IF Online
            THEN Send([kind |-> "update", id |-> guest.id,
                       updates |-> [is_attended |-> st], attempt |-> 1])
            ELSE UNCHANGED netVars
  /\ UNCHANGED << floorRest, supabase, loading, error, isOffline, expandedDesks, lsNotes,
                  lsOrder, dbVars, pc, deskDlgVars, lastResult >>
  /\ PositionsFollow

(***************************************************************************)
(* App.tsx: handleSaveDescription (the edit dialog's save).                *)
(***************************************************************************)
\* the desks the dialogs' selects offer
ExistingDeskNumbers == IF DeskSet(guests) # {} THEN DeskSet(guests) ELSE {1}

SaveUpdates(description, isAttended, deskNo, personCount, giftCount) ==
  [ description |-> IF description = "" THEN NULL ELSE description,
    is_attended |-> isAttended,
    desk_no |-> deskNo,
    person_count |-> personCount,
    gift_count |-> giftCount ]

HandleSaveDescription(i, description, isAttended, deskNo, personCount) ==
  /\ Idle
  /\ i \in DOMAIN guests
  /\ Gesture
  /\ LET id == guests[i].id
         \* guests.find((g) => g.id === id)
         guest == guests[CHOOSE j \in DOMAIN guests :
                           /\ guests[j].id = id
                           /\ \A k \in 1..(j - 1) : guests[k].id # id]
         updates == SaveUpdates(description, isAttended, deskNo, personCount,
                                guests[i].gift_count)
     IN  /\ guests' = WithUpdates(guests, id, updates)
         /\ lsAttendance' =
              saveLocalAttendance(lsAttendance, guest.full_name, isAttended)
         /\ lsNotes' = saveLocalNotes(lsNotes, guest.full_name, description)
         /\ attSet' = MapPut(attSet, guest.full_name, isAttended)
         /\ noteSet' = MapPut(noteSet, guest.full_name, description)
         /\ lastOp' = [op |-> "save", id |-> id]
         /\ IF Online
            THEN /\ Send([kind |-> "update", id |-> id, updates |-> updates,
                          attempt |-> 1])
                 /\ pc' = [op |-> "save", seq |-> nextSeq + 1]
            ELSE UNCHANGED << netVars, pc >>
  /\ UNCHANGED << floorOnly, supabase, loading, error, isOffline, expandedDesks, lsOrder,
                  dbVars, deskDlgVars, lastResult >>
  /\ PositionsFollow

(***************************************************************************)
(* App.tsx: handleDeleteGuest.                                             *)
(***************************************************************************)
HandleDeleteGuest(i) ==
  /\ Idle
  /\ i \in DOMAIN guests
  /\ Gesture
  /\ guests' = WithoutId(guests, guests[i].id)
  /\ lastOp' = [op |-> "delete", id |-> guests[i].id]
  /\ IF Online
     THEN /\ Send([kind |-> "delete", id |-> guests[i].id, attempt |-> 1])
          /\ pc' = [op |-> "delete", seq |-> nextSeq + 1]
     ELSE UNCHANGED << netVars, pc >>
  /\ UNCHANGED << floorRest, supabase, loading, error, isOffline, expandedDesks, lsVars,
                  dbVars, deskDlgVars, attSet, lastResult >>
  /\ PositionsFollow

(***************************************************************************)
(* updateGuestInDB / deleteGuestFromDB are answered.  The handlers do      *)
(* nothing after the await: a failure leaves the list as it is.            *)
(***************************************************************************)
\* a rollback: the failed request's guest is taken out of the list again
RolledBack(gs, req) == WithoutId(gs, req.id)

\* the guest list once the awaited update or delete has failed
AfterFailedWrite(gs, req) == gs

AwaitedBy(seq) ==
  pc.op \in {"save", "delete"} /\ pc.seq = seq

UpdateGuestDone(seq, outcome) ==
  /\ seq \in DOMAIN inflight
  /\ inflight[seq].kind = "update"
  /\ inflight' = Answered(seq)
  /\ dbGuests' = IF outcome = "ok"
                 THEN DbUpdate(dbGuests, inflight[seq].id, inflight[seq].updates)
                 ELSE dbGuests
  /\ guests' = IF outcome = "ok" THEN guests
               ELSE AfterFailedWrite(guests, inflight[seq])
  /\ pc' = IF AwaitedBy(seq) THEN IdlePc ELSE pc
  /\ lastResult' = [helper |-> "updateGuestInDB", failed |-> outcome # "ok",
                    value |-> updateGuestInDB(outcome).value]
  /\ UNCHANGED << floorRest, supabase, loading, error, isOffline, expandedDesks, lsVars,
                  dbNextId, nextSeq, nOps, deskDlgVars, attSet, lastOp >>
  /\ PositionsFollow

DeleteGuestDone(seq, outcome) ==
  /\ seq \in DOMAIN inflight
  /\ inflight[seq].kind = "delete"
  /\ AwaitedBy(seq)
  /\ inflight' = Answered(seq)
  /\ dbGuests' = IF outcome = "ok" THEN DbDelete(dbGuests, inflight[seq].id)
                 ELSE dbGuests
  /\ guests' = IF outcome = "ok" THEN guests
               ELSE AfterFailedWrite(guests, inflight[seq])
  /\ pc' = IdlePc
  /\ lastResult' = [helper |-> "deleteGuestFromDB", failed |-> outcome # "ok",
                    value |-> deleteGuestFromDB(outcome).value]
  /\ UNCHANGED << floorRest, supabase, loading, error, isOffline, expandedDesks, lsVars,
                  dbNextId, nextSeq, nOps, deskDlgVars, attSet, lastOp >>
  /\ PositionsFollow

(***************************************************************************)
(* App.tsx: handleSplitGuest.                                              *)
(***************************************************************************)
\* the i-th (0-based) single-person guest made from guest, without id
SplitEntry(guest, i) ==
  [ full_name |-> Append(guest.full_name, i + 1),
    person_count |-> 1,
    desk_no |-> guest.desk_no,
    gift_count |-> IF i = 0 THEN guest.gift_count ELSE 0,
    description |-> IF i = 0 THEN guest.description ELSE NULL,
    is_attended |-> NULL,
    display_order |-> i ]

\* EditGuestDialog: the names the split confirmation starts with
DefaultSplitNames(guest) ==
  [k \in 1..guest.person_count |-> Append(guest.full_name, k)]

\* EditGuestDialog: the user types names into the inputs of the split
\* confirmation of guest i
EditSplitNames(i, names) ==
  /\ panel = "split"
  /\ Idle
  /\ ~loading
  /\ i \in DOMAIN guests
  /\ guests[i].person_count > 1
  /\ Len(names) = guests[i].person_count
  /\ splitNames' = [id |-> guests[i].id, names |-> names]
  /\ UNCHANGED << supabase, appVars, lsVars, dbVars, pc, deskDlgVars,
                  guestLogVars, netVars, nOps, panel, positions, lsPositions,
                  dbPositions, posLoaded, posPc, posLog, objVars,
                  searchVars, noteSet, bundleValid, dialogDeskNo >>

\* EditGuestDialog handleSplit: onSplitGuest(guest, splitNames)
PassedSplitNames(guest) ==
  IF splitNames.id = guest.id THEN splitNames.names
  ELSE DefaultSplitNames(guest)

\* offline: Math.max(...guests.map((g) => g.id), 0) + i + 1
SplitLocalId(gs, i) == MaxId(gs) + i + 1

\* [...prev.filter((g) => g.id !== guest.id), ...newGuests]
SplitResult(prev, guest, newGuests) == WithoutId(prev, guest.id) \o newGuests

\* the whole handler when no request is made (no client, or offline)
HandleSplitGuestLocal(i) ==
  /\ Idle
  /\ i \in DOMAIN guests
  /\ guests[i].person_count > 1
  /\ ~Online
  /\ Gesture
  /\ LET guest == guests[i]
         newGuests ==
           [k \in 1..guest.person_count |->
              Spread(SplitEntry(guest, k - 1),
                     [id |-> SplitLocalId(guests, k - 1)])]
     IN  guests' = SplitResult(guests, guest, newGuests)
  /\ lastOp' = [op |-> "split", id |-> guests[i].id,
                n |-> guests[i].person_count]
  /\ UNCHANGED << floorRest, supabase, loading, error, isOffline, expandedDesks, lsVars,
                  dbVars, netVars, pc, deskDlgVars, attSet, lastResult >>
  /\ PositionsFollow

\* online: the loop starts and awaits createGuestInDB for i = 0
HandleSplitGuest(i) ==
  /\ Idle
  /\ i \in DOMAIN guests
  /\ guests[i].person_count > 1
  /\ Online
  /\ Gesture
  /\ Send([kind |-> "insert", guest |-> SplitEntry(guests[i], 0),
           attempt |-> 1])
  /\ pc' = [op |-> "split", seq |-> nextSeq + 1, guest |-> guests[i], i |-> 0,
            newGuests |-> <<>>]
  /\ lastOp' = [op |-> "split", id |-> guests[i].id,
                n |-> guests[i].person_count]
  /\ UNCHANGED << floorRest, supabase, guests, loading, error, isOffline, expandedDesks,
                  lsVars, dbVars, deskDlgVars, attSet, lastResult >>
  /\ PositionsFollow

\* createGuestInDB of the loop is answered: push the created row if there is
\* one, then go on with the next i, or with deleteGuestFromDB after the loop
SplitCreateDone(outcome) ==
  /\ pc.op = "split"
  /\ pc.seq \in DOMAIN inflight
  /\ LET row == DbInsertRow(inflight[pc.seq].guest, dbNextId)
         created == createGuestInDB(outcome, row)
         newGuests == IF created.value # NULL
                      THEN Append(pc.newGuests, created.row)
                      ELSE pc.newGuests
         next == IF pc.i + 1 < pc.guest.person_count
                 THEN [kind |-> "insert",
                       guest |-> SplitEntry(pc.guest, pc.i + 1),
                       attempt |-> 1]
                 ELSE [kind |-> "delete", id |-> pc.guest.id, attempt |-> 1]
     IN  /\ dbGuests' = IF outcome = "ok" THEN dbGuests \cup {row} ELSE dbGuests
         /\ dbNextId' = IF outcome = "ok" THEN dbNextId + 1 ELSE dbNextId
         /\ inflight' = MapPut(Answered(pc.seq), nextSeq + 1, next)
         /\ nextSeq' = nextSeq + 1
         /\ pc' = [op |-> IF next.kind = "insert" THEN "split" ELSE "splitDelete",
                   seq |-> nextSeq + 1, guest |-> pc.guest, i |-> pc.i + 1,
                   newGuests |-> newGuests]
         /\ lastResult' = [helper |-> "createGuestInDB", failed |-> outcome # "ok",
                           value |-> created.value]
  /\ UNCHANGED << floorRest, supabase, guests, loading, error, isOffline, expandedDesks,
                  lsVars, nOps, deskDlgVars, attSet, lastOp >>
  /\ PositionsFollow

\* deleteGuestFromDB of the split is answered: the list is updated
SplitDeleteDone(outcome) ==
  /\ pc.op = "splitDelete"
  /\ pc.seq \in DOMAIN inflight
  /\ inflight' = Answered(pc.seq)
  /\ dbGuests' = IF outcome = "ok" THEN DbDelete(dbGuests, pc.guest.id)
                 ELSE dbGuests
  /\ guests' = SplitResult(guests, pc.guest, pc.newGuests)
  /\ pc' = IdlePc
  /\ lastResult' = [helper |-> "deleteGuestFromDB", failed |-> outcome # "ok",
                    value |-> deleteGuestFromDB(outcome).value]
  /\ UNCHANGED << floorRest, supabase, loading, error, isOffline, expandedDesks, lsVars,
                  dbNextId, nextSeq, nOps, deskDlgVars, attSet, lastOp >>
  /\ PositionsFollow

(***************************************************************************)
(* App.tsx: handleCreateGuest.                                             *)
(***************************************************************************)
NewGuest(fullName, personCount, deskNo, giftCount) ==
  [ full_name |-> fullName, person_count |-> personCount, desk_no |-> deskNo,
    gift_count |-> giftCount, description |-> NULL, is_attended |-> NULL ]

\* Math.max(...guests.map((g) => g.id), 0) + 1
CreateLocalId(gs) == MaxId(gs) + 1

HandleCreateGuest(fullName, personCount, deskNo, giftCount) ==
  /\ Idle
  /\ ~loading
  \* the select offers existingDeskNumbers; left alone, deskNo is the
  \* dialog's state, which handleCreate does not reset
  /\ deskNo \in ExistingDeskNumbers \cup {dialogDeskNo}
  /\ dialogDeskNo' = deskNo
  /\ Gesture
  /\ lastOp' = [op |-> "createGuest"]
  /\ LET newGuest == NewGuest(fullName, personCount, deskNo, giftCount)
     IN  IF Online
         THEN /\ Send([kind |-> "insert", guest |-> newGuest, attempt |-> 1])
              /\ pc' = [op |-> "create", seq |-> nextSeq + 1,
                        guest |-> newGuest]
              /\ UNCHANGED << guests, expandedDesks >>
         ELSE /\ guests' = Append(guests,
                             Spread(newGuest, [id |-> CreateLocalId(guests)]))
              /\ expandedDesks' = expandedDesks \cup {deskNo}
              /\ UNCHANGED << netVars, pc >>
  /\ UNCHANGED << panel, dbPositions, posLoaded, posPc, posLog, objVars,
                  searchVars, splitNames, bundleValid, noteSet, supabase,
                  loading, error, isOffline, lsVars, dbVars, deskDlgVars,
                  attSet, lastResult >>
  /\ PositionsFollow

CreateGuestDone(outcome) ==
  /\ pc.op = "create"
  /\ pc.seq \in DOMAIN inflight
  /\ inflight' = Answered(pc.seq)
  /\ LET row == DbInsertRow(pc.guest, dbNextId)
         dbGuest == createGuestInDB(outcome, row)
         createdGuest == IF dbGuest.value # NULL THEN dbGuest.row
                         ELSE Spread(pc.guest, [id |-> CreateLocalId(guests)])
     IN  /\ dbGuests' = IF outcome = "ok" THEN dbGuests \cup {row} ELSE dbGuests
         /\ dbNextId' = IF outcome = "ok" THEN dbNextId + 1 ELSE dbNextId
         /\ guests' = Append(guests, createdGuest)
         /\ lastResult' = [helper |-> "createGuestInDB", failed |-> outcome # "ok",
                           value |-> dbGuest.value]
  /\ expandedDesks' = expandedDesks \cup {pc.guest.desk_no}
  /\ pc' = IdlePc
  /\ UNCHANGED << floorRest, supabase, loading, error, isOffline, lsVars, nextSeq, nOps,
                  deskDlgVars, attSet, lastOp >>
  /\ PositionsFollow

(***************************************************************************)
(* CreateDeskDialog.tsx: handleCreate, and App.tsx: handleCreateDesk.      *)
(***************************************************************************)
\* existingDeskNumbers={deskNumbers}: the desks that have guests
DeskExists(deskNo) == deskNo \in DeskSet(guests)

DeskInRange(deskNo) == ~(deskNo < 1 \/ deskNo > 999)

HandleCreateDesk(deskNo) ==
  /\ Idle
  /\ ~loading
  /\ Gesture
  /\ lastOp' = [op |-> "createDesk"]
  /\ IF DeskExists(deskNo)
     THEN /\ createDeskError' = "exists"
          /\ UNCHANGED << expandedDesks, createDeskCalls >>
     ELSE IF ~DeskInRange(deskNo)
     THEN /\ createDeskError' = "range"
          /\ UNCHANGED << expandedDesks, createDeskCalls >>
     ELSE \* onCreateDesk(deskNo): setExpandedDesks(new Set([...prev, deskNo]))
          /\ createDeskError' = ""
          /\ expandedDesks' = expandedDesks \cup {deskNo}
          /\ createDeskCalls' = Append(createDeskCalls, deskNo)
  /\ UNCHANGED << floorRest, supabase, guests, loading, error, isOffline, lsVars, dbVars,
                  netVars, pc, attSet, lastResult >>
  /\ PositionsFollow

(***************************************************************************)
(* App.tsx: handleReorderGuests, and updateGuestOrderInDB.                 *)
(***************************************************************************)
DeskGuestIds(deskNo) ==
  LET RECURSIVE Ids(_)
      Ids(gs) == IF gs = <<>> THEN <<>>
                 ELSE IF Head(gs).desk_no = deskNo
                      THEN <<Head(gs).id>> \o Ids(Tail(gs))
                      ELSE Ids(Tail(gs))
  IN  Ids(guests)

Reverse(s) == [k \in DOMAIN s |-> s[Len(s) + 1 - k]]

\* the view hands over the desk's guests in the order the user dragged them to
HandleReorderGuests(deskNo) ==
  /\ Idle
  /\ deskNo \in DeskSet(guests)
  /\ Len(DeskGuestIds(deskNo)) > 1
  /\ Gesture
  /\ LET ids == Reverse(IF deskNo \in DOMAIN lsOrder THEN lsOrder[deskNo]
                        ELSE DeskGuestIds(deskNo))
     IN  /\ lsOrder' = MapPut(lsOrder, deskNo, ids)
         /\ IF Online
            THEN Send([kind |-> "order", ids |-> ids, attempt |-> 1])
            ELSE UNCHANGED netVars
  /\ lastOp' = [op |-> "reorder", deskNo |-> deskNo]
  /\ UNCHANGED << floorRest, supabase, appVars, lsAttendance, lsNotes, dbVars, pc,
                  deskDlgVars, attSet, lastResult >>
  /\ PositionsFollow

OrderPositions(seq) ==
  IF inflight[seq].kind = "order" THEN DOMAIN inflight[seq].ids ELSE {}

\* Promise.all over one update per id is settled: "error" is some update
\* resolving with an error result, "throw" some update rejecting; applied are
\* the positions in ids whose update the backend carried out
OrderDone(seq, outcome, applied) ==
  /\ seq \in DOMAIN inflight
  /\ inflight[seq].kind = "order"
  /\ applied \subseteq DOMAIN inflight[seq].ids
  /\ (outcome = "ok") = (applied = DOMAIN inflight[seq].ids)
  /\ inflight' = Answered(seq)
  /\ LET ids == inflight[seq].ids
     IN  dbGuests' =
           {IF \E k \in applied : ids[k] = r.id
            THEN Spread(r, [display_order |->
                   (CHOOSE k \in applied : ids[k] = r.id) - 1])
            ELSE r : r \in dbGuests}
  /\ lastResult' = [helper |-> "updateGuestOrderInDB", failed |-> outcome # "ok",
                    value |-> updateGuestOrderInDB(outcome).value]
  /\ UNCHANGED << floorRest, supabase, appVars, lsVars, dbNextId, nextSeq, pc, nOps,
                  deskDlgVars, attSet, lastOp >>
  /\ PositionsFollow

(***************************************************************************)
(* hooks/useTablePositions.ts: the load on mount, drags and the reset.     *)
(***************************************************************************)
\* loadSupabasePositions: null on an error, a throw or an empty table
loadSupabasePositions(outcome, rows) ==
  IF outcome = "ok" /\ DOMAIN rows # {}
  THEN [found |-> TRUE, rows |-> rows]
  ELSE [found |-> FALSE, rows |-> EmptyMap]

\* the backend reads the table for the query sent on mount; without a
\* client loadSupabasePositions returns null at once
LoadPositionsRead(outcome) ==
  /\ posPc.op = "load"
  /\ supabase \/ outcome = "ok"
  /\ posPc' = [op |-> "answer",
               result |-> IF supabase
                          THEN loadSupabasePositions(outcome, dbPositions)
                          ELSE loadSupabasePositions("error", EmptyMap)]
  /\ posLog' = [posLog EXCEPT !.read = IF supabase THEN outcome ELSE "local"]
  /\ UNCHANGED << guestRest, netVars, nOps, panel, positions, lsPositions,
                  dbPositions, posLoaded, objVars >>

\* the rest of loadFromSupabase, then the save effect of the next render
LoadPositionsDone ==
  /\ posPc.op = "answer"
  /\ positions' =
       IF posPc.result.found
       THEN SpreadMap(SpreadMap(generateDefaultPositions(<<>>), positions),
                      posPc.result.rows)
       ELSE positions
  /\ posLoaded' = TRUE
  /\ lsPositions' = SavedAfterRender(TRUE, positions', lsPositions)
  /\ posPc' = [op |-> "done"]
  /\ UNCHANGED << guestRest, netVars, nOps, panel, dbPositions, posLog,
                  objVars >>

\* several requests sent by one handler, in the order of reqs
SendAll(reqs) ==
  /\ Cardinality(DOMAIN inflight) + Len(reqs) <= InflightBound
  /\ inflight' = [q \in (DOMAIN inflight) \cup (nextSeq + 1 .. nextSeq + Len(reqs))
                  |-> IF q \in DOMAIN inflight THEN inflight[q]
                      ELSE reqs[q - nextSeq]]
  /\ nextSeq' = nextSeq + Len(reqs)

\* saveSupabasePosition's request
UpsertRequest(deskNo, position) ==
  [kind |-> "upsert", desk_no |-> deskNo, position |-> position, attempt |-> 1]

\* what updatePosition leaves in local storage: its own write, then the
\* save effect of the render it causes
StoredAfterDrag(stored, deskNo, position, newPositions) ==
  SavedAfterRender(posLoaded, newPositions, MapPut(stored, deskNo, position))

\* Table's onDragEnd -> updatePosition(deskNo, position)
UpdatePosition(deskNo, position) ==
  /\ panel \in {"tables", "reset"}
  /\ ~loading
  /\ deskNo \in DeskSet(guests)
  /\ Gesture
  /\ positions' = MapPut(positions, deskNo, position)
  /\ lsPositions' = StoredAfterDrag(lsPositions, deskNo, position, positions')
  /\ IF supabase
     THEN Send(UpsertRequest(deskNo, position))
     ELSE UNCHANGED netVars
  /\ posLog' = [posLog EXCEPT !.lastDrag = MapPut(@, deskNo, position)]
  /\ UNCHANGED << guestRest, panel, dbPositions, posLoaded, posPc, objVars >>

\* the backend applies an upsert (ON CONFLICT (desk_no) DO UPDATE) and the
\* answer is received; an error is logged only
UpsertDone(seq, outcome) ==
  /\ seq \in DOMAIN inflight
  /\ inflight[seq].kind = "upsert"
  /\ inflight' = Answered(seq)
  /\ dbPositions' = IF outcome = "ok"
                    THEN MapPut(dbPositions, inflight[seq].desk_no,
                                inflight[seq].position)
                    ELSE dbPositions
  /\ posLog' = [posLog EXCEPT !.failed = @ \/ outcome # "ok"]
  /\ UNCHANGED << guestRest, nextSeq, nOps, panel, positions, lsPositions,
                  posLoaded, posPc, objVars >>

\* the Reset Positions button -> resetPositions()
ResetPositions ==
  /\ panel \in {"tables", "reset"}
  /\ ~loading
  /\ Gesture
  /\ LET deskNumbers == DeskNumbers(guests)
         defaults == generateDefaultPositions(deskNumbers)
     IN  /\ positions' = defaults
         /\ lsPositions' = defaults
         /\ IF supabase
            THEN SendAll([k \in DOMAIN deskNumbers |->
                           UpsertRequest(deskNumbers[k], defaults[deskNumbers[k]])])
            ELSE UNCHANGED netVars
  /\ posLog' = [posLog EXCEPT !.lastDrag = EmptyMap]
  /\ UNCHANGED << guestRest, panel, dbPositions, posLoaded, posPc, objVars >>

(***************************************************************************)
(* hooks/useFixedObjects.ts and FixedObject.tsx: the fixed objects.        *)
(***************************************************************************)
Rotations == {0, 90, 180, 270}

\* the save effect: if (isLoaded) saveLocalObjects(objects)
SavedObjects(isLoaded, newObjects, stored) ==
  IF isLoaded THEN newObjects ELSE stored

\* loadFixedObjectsFromDB: [] on an error or a throw
loadFixedObjectsFromDB(outcome, rows) ==
  IF outcome = "ok" THEN rows ELSE <<>>

\* createFixedObjectInDB: the inserted row, or null
createFixedObjectInDB(outcome, obj, id) ==
  IF outcome = "ok"
  THEN [value |-> "row", row |-> [obj EXCEPT !.id = id]]
  ELSE [value |-> NULL]

\* updateFixedObjectInDB, deleteFixedObjectFromDB: true, or false
updateFixedObjectInDB(outcome) ==
  [value |-> IF outcome = "ok" THEN "true" ELSE "false"]

deleteFixedObjectFromDB(outcome) ==
  [value |-> IF outcome = "ok" THEN "true" ELSE "false"]

\* the backend reads fixed_objects for the query sent on mount; without a
\* client the query is skipped
LoadObjectsRead(outcome) ==
  /\ objPc.op = "load"
  /\ supabase \/ outcome = "ok"
  /\ objPc' = [op |-> "answer",
               rows |-> IF supabase
                        THEN loadFixedObjectsFromDB(outcome, dbObjects)
                        ELSE <<>>]
  /\ UNCHANGED << guestRest, netVars, nOps, panel, positions, lsPositions,
                  dbPositions, posLoaded, posPc, posLog, objects, lsObjects,
                  dbObjects, objLoaded, objNextId, objLog >>

\* the rest of loadFromSupabase, then the save effect of the next render
LoadObjectsDone ==
  /\ objPc.op = "answer"
  /\ objects' = IF Len(objPc.rows) > 0 THEN objPc.rows ELSE objects
  /\ objLog' = IF Len(objPc.rows) > 0 THEN FreshLog(objPc.rows) ELSE objLog
  /\ objLoaded' = TRUE
  /\ lsObjects' = SavedObjects(TRUE, objects', lsObjects)
  /\ objPc' = [op |-> "done"]
  /\ UNCHANGED << guestRest, netVars, nOps, panel, positions, lsPositions,
                  dbPositions, posLoaded, posPc, posLog, dbObjects,
                  objNextId >>

\* what an object handler leaves alone
objRest == << guestCore, panel, positions, lsPositions, dbPositions,
             posLoaded, posPc, posLog, objLoaded, objPc >>

ObjectGesture ==
  /\ panel = "objects"
  /\ ~loading
  /\ Gesture

\* addObject's newObject (generateId gives a fresh id)
NewObject(type, name, x, y) ==
  [id |-> objNextId, type |-> type, name |-> name, x |-> x, y |-> y,
   width |-> IF type = "rectangle" THEN 100 ELSE 80,
   height |-> IF type = "rectangle" THEN 60 ELSE 80,
   rotation |-> 0]

\* setObjects((prev) => [...prev, newObject])
WithNewObject(prev, newObject) == Append(prev, newObject)

\* CreateFixedObjectDialog's handleCreate -> addObject(type, name); x and
\* y are 200 + Math.random() * 200
AddObject(type, name, x, y) ==
  /\ ObjectGesture
  /\ Len(objects) + Cardinality({q \in DOMAIN inflight :
                                   inflight[q].kind = "createObject"})
       < MaxObjects
  /\ objNextId' = objNextId + 1
  /\ LET newObject == NewObject(type, name, x, y)
     IN  IF supabase
         THEN /\ Send([kind |-> "createObject", object |-> newObject,
                       attempt |-> 1])
              /\ UNCHANGED << objects, lsObjects, objLog >>
         ELSE /\ objects' = WithNewObject(objects, newObject)
              /\ lsObjects' = SavedObjects(objLoaded, objects', lsObjects)
              /\ objLog' = MapPut(objLog, newObject.id,
                                  [rot0 |-> newObject.rotation, nrot |-> 0])
              /\ UNCHANGED netVars
  /\ UNCHANGED << objRest, dbObjects, lastResult >>

\* createFixedObjectInDB is answered and addObject goes on
CreateObjectDone(seq, outcome) ==
  /\ seq \in DOMAIN inflight
  /\ inflight[seq].kind = "createObject"
  /\ inflight' = Answered(seq)
  /\ LET dbObj == createFixedObjectInDB(outcome, inflight[seq].object,
                                        objNextId)
         newObject == IF dbObj.value # NULL THEN dbObj.row
                      ELSE inflight[seq].object
     IN  /\ dbObjects' = IF outcome = "ok" THEN Append(dbObjects, dbObj.row)
                         ELSE dbObjects
         /\ objNextId' = IF outcome = "ok" THEN objNextId + 1 ELSE objNextId
         /\ objects' = WithNewObject(objects, newObject)
         /\ lsObjects' = SavedObjects(objLoaded, objects', lsObjects)
         /\ objLog' = MapPut(objLog, newObject.id,
                             [rot0 |-> newObject.rotation, nrot |-> 0])
         /\ lastResult' = [helper |-> "createFixedObjectInDB",
                           failed |-> outcome # "ok", value |-> dbObj.value]
  /\ UNCHANGED << objRest, nextSeq, nOps >>

\* prev.map((obj) => (obj.id === updatedObject.id ? updatedObject : obj))
WithObject(prev, updatedObject) ==
  [k \in DOMAIN prev |->
     IF prev[k].id = updatedObject.id THEN updatedObject ELSE prev[k]]

\* the columns updateObject sends
ObjectColumns(obj) ==
  [name |-> obj.name, type |-> obj.type, x |-> obj.x, y |-> obj.y,
   width |-> obj.width, height |-> obj.height, rotation |-> obj.rotation]

\* updateObject(updatedObject): local state first, then the backend
UpdateObject(updatedObject) ==
  /\ objects' = WithObject(objects, updatedObject)
  /\ lsObjects' = SavedObjects(objLoaded, objects', lsObjects)
  /\ IF supabase
     THEN Send([kind |-> "updateObject", id |-> updatedObject.id,
                updates |-> ObjectColumns(updatedObject), attempt |-> 1])
     ELSE UNCHANGED netVars
  /\ UNCHANGED << objRest, dbObjects, objNextId, lastResult >>

\* a rotation that does not wrap at 360
newRotationNoWrap(object) == object.rotation + 90

\* ((object.rotation + 90) % 360)
newRotation(object) == (object.rotation + 90) % 360

\* the rotate button: onUpdate({ ...object, rotation: newRotation })
HandleRotate(i) ==
  /\ ObjectGesture
  /\ i \in DOMAIN objects
  /\ UpdateObject([objects[i] EXCEPT !.rotation = newRotation(objects[i])])
  /\ objLog' = [objLog EXCEPT ![objects[i].id].nrot = @ + 1]

\* onDragEnd: onUpdate({ ...object, x: x.get(), y: y.get() })
HandleDragEnd(i, x, y) ==
  /\ ObjectGesture
  /\ i \in DOMAIN objects
  /\ UpdateObject([objects[i] EXCEPT !.x = x, !.y = y])
  /\ UNCHANGED objLog

Max(a, b) == IF a >= b THEN a ELSE b

\* corner.includes(c) for the four corners nw, ne, sw, se
CornerIncludes(corner, c) ==
  \/ c = "n" /\ corner \in {"nw", "ne"}
  \/ c = "s" /\ corner \in {"sw", "se"}
  \/ c = "w" /\ corner \in {"nw", "sw"}
  \/ c = "e" /\ corner \in {"ne", "se"}

\* handleMove of handleResizeStart: the object after a pointer move by
\* (dx, dy) on a corner handle
Resized(object, corner, dx, dy) ==
  LET w0 == IF CornerIncludes(corner, "e") THEN object.width + dx
            ELSE IF CornerIncludes(corner, "w") THEN object.width - dx
            ELSE object.width
      h0 == IF CornerIncludes(corner, "s") THEN object.height + dy
            ELSE IF CornerIncludes(corner, "n") THEN object.height - dy
            ELSE object.height
      newWidth == Max(50, w0)
      newHeight == Max(50, h0)
      newX == IF CornerIncludes(corner, "w")
              THEN IF newWidth = 50 THEN object.x + object.width - 50
                   ELSE object.x + dx
              ELSE object.x
      newY == IF CornerIncludes(corner, "n")
              THEN IF newHeight = 50 THEN object.y + object.height - 50
                   ELSE object.y + dy
              ELSE object.y
  IN  [object EXCEPT !.width = newWidth, !.height = newHeight,
                     !.x = newX, !.y = newY]

\* a pointer move on a resize handle
HandleResize(i, corner, dx, dy) ==
  /\ ObjectGesture
  /\ i \in DOMAIN objects
  /\ UpdateObject(Resized(objects[i], corner, dx, dy))
  /\ UNCHANGED objLog

\* handleSaveName -> editObjectName(id, name)
EditObjectName(i, name) ==
  /\ ObjectGesture
  /\ i \in DOMAIN objects
  /\ objects' = [k \in DOMAIN objects |->
                   IF objects[k].id = objects[i].id
                   THEN [objects[k] EXCEPT !.name = name] ELSE objects[k]]
  /\ lsObjects' = SavedObjects(objLoaded, objects', lsObjects)
  /\ IF supabase
     THEN Send([kind |-> "updateObject", id |-> objects[i].id,
                updates |-> [name |-> name], attempt |-> 1])
     ELSE UNCHANGED netVars
  /\ UNCHANGED << objRest, dbObjects, objNextId, objLog, lastResult >>

\* prev.filter((obj) => obj.id !== id)
RECURSIVE WithoutObject(_, _)
WithoutObject(objs, id) ==
  IF objs = <<>> THEN <<>>
  ELSE IF Head(objs).id = id THEN WithoutObject(Tail(objs), id)
       ELSE <<Head(objs)>> \o WithoutObject(Tail(objs), id)

\* the delete button -> deleteObject(id)
DeleteObject(i) ==
  /\ ObjectGesture
  /\ i \in DOMAIN objects
  /\ objects' = WithoutObject(objects, objects[i].id)
  /\ lsObjects' = SavedObjects(objLoaded, objects', lsObjects)
  /\ IF supabase
     THEN Send([kind |-> "deleteObject", id |-> objects[i].id, attempt |-> 1])
     ELSE UNCHANGED netVars
  /\ UNCHANGED << objRest, dbObjects, objNextId, objLog, lastResult >>

\* UPDATE fixed_objects SET updates WHERE id = id
DbUpdateObject(rows, id, updates) ==
  [k \in DOMAIN rows |->
     IF rows[k].id = id THEN Spread(rows[k], updates) ELSE rows[k]]

\* updateFixedObjectInDB is answered; updateObject and editObjectName end
ObjectUpdateDone(seq, outcome) ==
  /\ seq \in DOMAIN inflight
  /\ inflight[seq].kind = "updateObject"
  /\ inflight' = Answered(seq)
  /\ dbObjects' = IF outcome = "ok"
                  THEN DbUpdateObject(dbObjects, inflight[seq].id,
                                      inflight[seq].updates)
                  ELSE dbObjects
  /\ lastResult' = [helper |-> "updateFixedObjectInDB",
                    failed |-> outcome # "ok",
                    value |-> updateFixedObjectInDB(outcome).value]
  /\ UNCHANGED << objRest, nextSeq, nOps, objects, lsObjects, objNextId,
                  objLog >>

\* deleteFixedObjectFromDB is answered; deleteObject ends
ObjectDeleteDone(seq, outcome) ==
  /\ seq \in DOMAIN inflight
  /\ inflight[seq].kind = "deleteObject"
  /\ inflight' = Answered(seq)
  /\ dbObjects' = IF outcome = "ok"
                  THEN WithoutObject(dbObjects, inflight[seq].id)
                  ELSE dbObjects
  /\ lastResult' = [helper |-> "deleteFixedObjectFromDB",
                    failed |-> outcome # "ok",
                    value |-> deleteFixedObjectFromDB(outcome).value]
  /\ UNCHANGED << objRest, nextSeq, nOps, objects, lsObjects, objNextId,
                  objLog >>

(***************************************************************************)
(* Inputs of the dialogs.                                                  *)
(***************************************************************************)
PersonCounts == {1, 2}
NewNames == {<<3>>}
DeskInputs == {1, 3, 1000}

(***************************************************************************)
(* The guest list: initial state and next-state relation.                  *)
(***************************************************************************)
\* positions a desk is dragged to
DragTargets == {[x |-> 10, y |-> 10], [x |-> 20, y |-> 20]}
\* a layout kept in local storage by an earlier visit
SavedLayout == [d \in {1} |-> [x |-> 30, y |-> 30]]
\* a layout kept in the backend by an earlier visit
StoredLayout == [d \in {1} |-> [x |-> 40, y |-> 40]]
ObjectTypes == {"rectangle", "triangle"}
\* values of 200 + Math.random() * 200
RandomCoords == {200}
\* pointer moves on a resize handle
ResizeMoves == {[corner |-> "nw", dx |-> 60, dy |-> 0 - 20]}
\* an object kept by an earlier visit
SavedObject ==
  [id |-> 1, type |-> "rectangle", name |-> "a", x |-> 200, y |-> 200,
   width |-> 100, height |-> 60, rotation |-> 270]

(***************************************************************************)
(* App.tsx: the search box.  filteredGuests keeps a guest when             *)
(* turkishIncludes finds the query in its name or its note.                *)
(***************************************************************************)
SetSearchQuery(q) ==
  /\ searchQuery' = q
  /\ searchHit' = turkishIncludes(searchText, q)
  /\ UNCHANGED << splitNames, noteSet, bundleValid, dialogDeskNo, searchText, supabase, appVars, lsVars, dbVars, pc,
                  deskDlgVars, guestLogVars, netVars, nOps, panel, positions,
                  lsPositions, dbPositions, posLoaded, posPc, posLog,
                  objVars >>

\* names typed into the inputs of the split confirmation
SplitNameInputs == {<<7>>, <<8>>}
\* the characters of the texts and queries of a search
Letters == {"I", "Idot", "i", "idotless", "Scedilla", "scedilla", "s"}

Strings == UNION {[1..n -> Letters] : n \in 0..MaxLen}

(***************************************************************************)
(* The state after the first render and its mount effects.                 *)
(***************************************************************************)
InitGuestState(rows) ==
  /\ supabase \in BOOLEAN
  /\ guests = <<>>
  /\ loading = TRUE
  /\ error = NULL
  /\ isOffline = FALSE
  /\ expandedDesks = {}
  /\ lsAttendance = EmptyMap
  /\ lsNotes = EmptyMap
  /\ lsOrder = EmptyMap
  /\ dbGuests = rows
  /\ dbNextId = Cardinality(rows) + 1
  /\ inflight = EmptyMap
  /\ nextSeq = 0
  /\ pc = [op |-> "mount"]
  /\ nOps = 0
  /\ createDeskError = ""
  /\ createDeskCalls = <<>>
  /\ attSet = EmptyMap
  /\ noteSet = EmptyMap
  /\ lastOp = [op |-> "none"]
  /\ lastResult = [helper |-> "none", failed |-> FALSE, value |-> "void"]
  /\ splitNames = [id |-> 0, names |-> <<>>]
  /\ dialogDeskNo = InitialDeskNo(<<>>)

InitGuests == InitGuestState(InitialRows)

\* useTablePositions: the initializer, then the deskNumbers effect with the
\* still empty guest list; the load is under way
InitPositions(saved, stored) ==
  /\ lsPositions = saved
  /\ dbPositions = stored
  /\ positions = MergePositions(InitialPositions(saved, <<>>), <<>>)
  /\ posLoaded = FALSE
  /\ posPc = [op |-> "load"]
  /\ posLog = [lastDrag |-> EmptyMap, failed |-> FALSE,
               saved |-> saved, read |-> "none"]

\* useFixedObjects: the initializer; the load is under way
InitObjects(saved, stored) ==
  /\ lsObjects = saved
  /\ dbObjects = stored
  /\ objects = saved
  /\ objLoaded = FALSE
  /\ objPc = [op |-> "load"]
  /\ objNextId = 2
  /\ objLog = FreshLog(saved)

\* the search box is empty; the filter looks at the text `text`
InitSearch(text) ==
  /\ searchQuery = <<>>
  /\ searchText = text
  /\ searchHit = turkishIncludes(text, <<>>)

Init ==
  /\ bundleValid = TRUE
  /\ panel = "guests"
  /\ InitGuests
  /\ InitPositions(EmptyMap, EmptyMap)
  /\ InitObjects(<<>>, <<>>)
  /\ InitSearch(<<>>)

InitPos ==
  /\ bundleValid = TRUE
  /\ panel = "tables"
  /\ InitGuests
  /\ \E saved \in {EmptyMap, SavedLayout}, stored \in {EmptyMap, StoredLayout} :
        InitPositions(saved, IF supabase THEN stored ELSE EmptyMap)
  /\ InitObjects(<<>>, <<>>)
  /\ InitSearch(<<>>)

InitObj ==
  /\ bundleValid = TRUE
  /\ panel = "objects"
  /\ InitGuests
  /\ InitPositions(EmptyMap, EmptyMap)
  /\ \E saved \in {<<>>, <<SavedObject>>} :
        InitObjects(saved, IF supabase THEN saved ELSE <<>>)
  /\ InitSearch(<<>>)

\* a behaviour that splits invitations in the edit dialog
InitSplit ==
  /\ bundleValid = TRUE
  /\ panel = "split"
  /\ InitGuests
  /\ InitPositions(EmptyMap, EmptyMap)
  /\ InitObjects(<<>>, <<>>)
  /\ InitSearch(<<>>)

\* a behaviour that loads the list; the bundle may be unusable
InitLoad ==
  /\ bundleValid \in BOOLEAN
  /\ panel = "load"
  /\ InitGuests
  /\ InitPositions(EmptyMap, EmptyMap)
  /\ InitObjects(<<>>, <<>>)
  /\ InitSearch(<<>>)

\* a behaviour that types into the search box
InitSearchBox ==
  /\ bundleValid = TRUE
  /\ panel = "search"
  /\ InitGuests
  /\ InitPositions(EmptyMap, EmptyMap)
  /\ InitObjects(<<>>, <<>>)
  /\ \E text \in Strings : InitSearch(text)

InitApp == Init \/ InitPos \/ InitObj

\* a guests table of the backend with guests at three desks
RowsOnThreeDesks ==
  InitialRows \cup
    { [id |-> 3, full_name |-> <<3>>, person_count |-> 1, desk_no |-> 3,
       gift_count |-> 1, description |-> NULL, is_attended |-> NULL,
       display_order |-> 0] }

\* the floor plan of a guests table with three desks
InitReset ==
  /\ bundleValid = TRUE
  /\ panel = "reset"
  /\ InitGuestState(RowsOnThreeDesks)
  /\ \E saved \in {EmptyMap, SavedLayout} : InitPositions(saved, EmptyMap)
  /\ InitObjects(<<>>, <<>>)
  /\ InitSearch(<<>>)

\* the page is opened with no layout kept, on the guests table or on one
\* in which no guest sits at desk 1 (every guest one desk further)
InitDesks ==
  /\ bundleValid = TRUE
  /\ panel = "guests"
  /\ \E rows \in {InitialRows,
                   {[r EXCEPT !.desk_no = @ + 1] : r \in InitialRows}} :
        InitGuestState(rows)
  /\ InitPositions(EmptyMap, EmptyMap)
  /\ InitObjects(<<>>, <<>>)
  /\ InitSearch(<<>>)

Next ==
  \/ FetchGuests
  \/ \E o \in Outcomes : FetchGuestsDone(o)
  \/ Reload
  \/ \E i \in DOMAIN guests : HandleToggleAttendance(i)
  \/ \E i \in DOMAIN guests, d \in Notes, a \in Tri,
        n \in ExistingDeskNumbers :
        HandleSaveDescription(i, d, a, n, guests[i].person_count)
  \/ \E i \in DOMAIN guests : HandleDeleteGuest(i)
  \/ \E s \in DOMAIN inflight, o \in Outcomes : UpdateGuestDone(s, o)
  \/ \E s \in DOMAIN inflight, o \in Outcomes : DeleteGuestDone(s, o)
  \/ \E i \in DOMAIN guests : HandleSplitGuestLocal(i)
  \/ \E i \in DOMAIN guests : HandleSplitGuest(i)
  \/ \E o \in Outcomes : SplitCreateDone(o)
  \/ \E o \in Outcomes : SplitDeleteDone(o)
  \/ \E f \in NewNames, p \in PersonCounts,
        n \in ExistingDeskNumbers \cup {dialogDeskNo} :
        HandleCreateGuest(f, p, n, 1)
  \/ \E o \in Outcomes : CreateGuestDone(o)
  \/ \E n \in DeskInputs : HandleCreateDesk(n)
  \/ \E n \in DeskSet(guests) : HandleReorderGuests(n)
  \/ \E s \in DOMAIN inflight, o \in Outcomes :
        \E applied \in SUBSET OrderPositions(s) : OrderDone(s, o, applied)

\* a behaviour that works with the desks of the floor plan
NextPos ==
  \/ FetchGuests
  \/ \E o \in Outcomes : FetchGuestsDone(o)
  \/ Reload
  \/ \E o \in Outcomes : LoadPositionsRead(o)
  \/ LoadPositionsDone
  \/ \E d \in DeskSet(guests), p \in DragTargets : UpdatePosition(d, p)
  \/ \E s \in DOMAIN inflight, o \in Outcomes : UpsertDone(s, o)
  \/ ResetPositions

\* a behaviour that works with the fixed objects of the floor plan
NextObj ==
  \/ FetchGuests
  \/ \E o \in Outcomes : FetchGuestsDone(o)
  \/ Reload
  \/ \E o \in Outcomes : LoadObjectsRead(o)
  \/ LoadObjectsDone
  \/ \E t \in ObjectTypes, c \in RandomCoords : AddObject(t, "a", c, c)
  \/ \E s \in DOMAIN inflight, o \in Outcomes : CreateObjectDone(s, o)
  \/ \E i \in DOMAIN objects : HandleRotate(i)
  \/ \E i \in DOMAIN objects : HandleDragEnd(i, 120, 80)
  \/ \E i \in DOMAIN objects, m \in ResizeMoves :
        HandleResize(i, m.corner, m.dx, m.dy)
  \/ \E i \in DOMAIN objects : EditObjectName(i, "b")
  \/ \E i \in DOMAIN objects : DeleteObject(i)
  \/ \E s \in DOMAIN inflight, o \in Outcomes : ObjectUpdateDone(s, o)
  \/ \E s \in DOMAIN inflight, o \in Outcomes : ObjectDeleteDone(s, o)

\* a behaviour works with one part of the page
NextApp ==
  \/ panel = "guests" /\ Next
  \/ panel = "tables" /\ NextPos
  \/ panel = "objects" /\ NextObj

\* a behaviour that splits invitations in the edit dialog
NextSplit ==
  \/ FetchGuests
  \/ \E o \in Outcomes : FetchGuestsDone(o)
  \/ Reload
  \/ \E i \in DOMAIN guests, names \in [1..2 -> SplitNameInputs] :
        EditSplitNames(i, names)
  \/ \E i \in DOMAIN guests : HandleSplitGuestLocal(i)
  \/ \E i \in DOMAIN guests : HandleSplitGuest(i)
  \/ \E o \in Outcomes : SplitCreateDone(o)
  \/ \E o \in Outcomes : SplitDeleteDone(o)

\* a behaviour that loads the list, again and again
NextLoad ==
  \/ FetchGuests
  \/ RetryFetchGuests
  \/ \E o \in Outcomes : FetchGuestsDone(o)
  \/ Reload
  \/ \E i \in DOMAIN guests : HandleToggleAttendance(i)
  \/ \E s \in DOMAIN inflight, o \in Outcomes : UpdateGuestDone(s, o)

\* a behaviour that types into the search box
NextSearch ==
  \E q \in Strings : SetSearchQuery(q)

Spec == Init /\ [][Next]_vars

SpecPos == InitPos /\ [][NextPos]_vars

SpecObj == InitObj /\ [][NextObj]_vars

SpecApp == InitApp /\ [][NextApp]_vars

SpecDesks == InitDesks /\ [][Next]_vars

SpecReset == InitReset /\ [][NextPos]_vars

SpecSearch == InitSearchBox /\ [][NextSearch]_vars

SpecSplit == InitSplit /\ [][NextSplit]_vars

\* the mount effect runs after the first render, and every request sent is
\* answered in the end (with a result, an error result or a throw)
SpecLoad ==
  /\ InitLoad
  /\ [][NextLoad]_vars
  /\ WF_vars(FetchGuests)
  /\ WF_vars(\E o \in Outcomes : FetchGuestsDone(o))
  /\ WF_vars(\E s \in DOMAIN inflight, o \in Outcomes : UpdateGuestDone(s, o))

(***************************************************************************)
(* Properties of the guest list (checked under Spec).                      *)
(***************************************************************************)
\* C1: a toggle of a guest whose is_attended is true makes it null, and a
\* toggle of a guest whose is_attended is null or false makes it true; the
\* list keeps its length.  Two toggles of one guest therefore alternate
\* between true and null.
C1_ToggleCycles ==
  [][\A i \in DOMAIN guests :
       HandleToggleAttendance(i) =>
         /\ Len(guests') = Len(guests)
         /\ guests'[i].is_attended =
              (IF guests[i].is_attended = "true" THEN NULL ELSE "true")]_vars

\* C1 witness: the second of two gestures was a toggle that took a guest
\* from true to null
C1_Witness ==
  /\ lastOp.op = "toggle"
  /\ nOps = 2
  /\ \E i \in DOMAIN guests :
        /\ guests[i].id = lastOp.id
        /\ guests[i].is_attended = NULL
        /\ guests[i].full_name \in DOMAIN attSet

\* the list after the split of g: the other guests in their order, then
\* exactly g.person_count entries of one person each at g's desk
SplitAddedExactlyN(g) ==
  LET kept == WithoutId(guests, g.id)
  IN  /\ Len(guests') = Len(kept) + g.person_count
      /\ SubSeq(guests', 1, Len(kept)) = kept
      /\ \A k \in (Len(kept) + 1)..Len(guests') :
            /\ guests'[k].person_count = 1
            /\ guests'[k].desk_no = g.desk_no

\* C2: when handleSplitGuest updates the list for a guest with
\* person_count n > 1, the original entry is gone and exactly n entries
\* with person_count 1 and the original's desk_no are added, without a
\* backend and with one.
C2_SplitAddsExactlyN ==
  [][/\ \A i \in DOMAIN guests :
          HandleSplitGuestLocal(i) => SplitAddedExactlyN(guests[i])
     /\ \A o \in Outcomes :
          SplitDeleteDone(o) => SplitAddedExactlyN(pc.guest)]_vars

\* C3: the create-desk dialog accepts a desk number at most once: in no
\* reachable state has onCreateDesk been called twice with the same number.
C3_DeskAcceptedOnce ==
  \A a, b \in DOMAIN createDeskCalls :
    a # b => createDeskCalls[a] # createDeskCalls[b]

\* C4: when updateGuestInDB (toggle, save) or deleteGuestFromDB (delete)
\* fails, the step that receives the failure leaves the guest list as the
\* optimistic update made it.
C4_NoRollback ==
  [][\A s \in DOMAIN inflight :
       \A o \in Outcomes \ {"ok"} :
         (UpdateGuestDone(s, o) \/ DeleteGuestDone(s, o)) =>
           guests' = guests]_vars

\* C4 witness: the update of a toggle has failed; the guest is still
\* shown as attending while the backend row is not
C4_Witness ==
  /\ lastResult.helper = "updateGuestInDB"
  /\ lastResult.failed
  /\ lastOp.op = "toggle"
  /\ \E i \in DOMAIN guests :
        /\ guests[i].id = lastOp.id
        /\ guests[i].is_attended = "true"
        /\ \E r \in dbGuests : r.id = lastOp.id /\ r.is_attended # "true"

\* the bundled list, ids 1..n in bundle order, with attendance and note
\* of local storage put over it by name
BundleWithOverrides ==
  [k \in 1..Len(Bundle) |->
     [ id |-> k,
       full_name |-> Bundle[k].fullName,
       person_count |-> Bundle[k].personCount,
       desk_no |-> Bundle[k].deskNo,
       gift_count |-> Bundle[k].giftCount,
       description |-> IF Bundle[k].fullName \in DOMAIN lsNotes
                       THEN lsNotes[Bundle[k].fullName]
                       ELSE Bundle[k].description,
       is_attended |-> IF Bundle[k].fullName \in DOMAIN lsAttendance
                       THEN lsAttendance[Bundle[k].fullName]
                       ELSE NULL ]]

\* C5: when fetchGuests completes after a successful query the list holds
\* exactly the backend's rows and isOffline is false; when it completes
\* after a failed query, or without a backend, isOffline is true and the
\* list is the bundle with the local overrides.
C5_FetchResult ==
  [][/\ \A o \in Outcomes :
          FetchGuestsDone(o) =>
            /\ ~loading'
            /\ IF o = "ok"
               THEN /\ ~isOffline'
                    /\ Range(guests') = dbGuests
                    /\ Len(guests') = Cardinality(dbGuests)
               ELSE /\ isOffline'
                    /\ guests' = BundleWithOverrides
     /\ (FetchGuests /\ ~supabase) =>
          /\ ~loading'
          /\ isOffline'
          /\ guests' = BundleWithOverrides]_vars

\* C5 witness: the list has been loaded again from the bundle and shows an
\* attendance override of local storage
C5_Witness ==
  /\ lastOp.op = "fetchGuests"
  /\ ~loading
  /\ isOffline
  /\ nOps = 2
  /\ \E i \in DOMAIN guests :
        /\ guests[i].is_attended = "true"
        /\ guests[i].full_name \in DOMAIN lsAttendance

\* C8: without a backend, when fetchGuests loads the list again every
\* guest has the attendance last set for its name by a toggle or a save of
\* the edit dialog, and null if none was ever set (the names of the bundle
\* are pairwise distinct).
C8_AttendanceSurvivesReload ==
  [][(FetchGuests /\ ~supabase) =>
       \A i \in DOMAIN guests' :
         guests'[i].is_attended =
           (IF guests'[i].full_name \in DOMAIN attSet
            THEN attSet[guests'[i].full_name] ELSE NULL)]_vars

\* C8 witness: without a backend the list was loaded again after a save
\* that set a guest's attendance to false, and shows false
C8_Witness ==
  /\ ~supabase
  /\ lastOp.op = "fetchGuests"
  /\ ~loading
  /\ \E i \in DOMAIN guests :
        /\ guests[i].is_attended = "false"
        /\ guests[i].full_name \in DOMAIN attSet
        /\ attSet[guests[i].full_name] = "false"
  /\ \E i \in DOMAIN guests :
        /\ guests[i].is_attended = NULL
        /\ guests[i].full_name \notin DOMAIN attSet

\* C18: without a backend, when fetchGuests loads the list again every
\* guest whose note was saved from the edit dialog has the description last
\* saved for its name: the text when it was not empty, null when it was
\* empty (the names of the bundle are pairwise distinct).
C18_SavedNoteSurvivesReload ==
  [][(FetchGuests /\ ~supabase) =>
       \A i \in DOMAIN guests' :
         guests'[i].full_name \in DOMAIN noteSet =>
           guests'[i].description =
             (IF noteSet[guests'[i].full_name] = "" THEN NULL
              ELSE noteSet[guests'[i].full_name])]_vars

\* C19: loading always becomes false again; an invocation of fetchGuests
\* that awaits the backend starts with the error message cleared; the step
\* that ends an invocation leaves loading false, with the load-failure
\* message exactly when the local fallback ran and failed, and with no
\* message (an older one included) otherwise.
C19_FetchEndsLoading ==
  /\ loading ~> ~loading
  /\ [][((FetchGuests \/ RetryFetchGuests) /\ supabase) =>
          (loading' /\ error' = NULL)]_vars
  /\ [][\A o \in Outcomes :
          (FetchGuestsDone(o)
             \/ ((FetchGuests \/ RetryFetchGuests) /\ ~supabase /\ o = "error")) =>
            /\ ~loading'
            /\ error' = (IF o # "ok" /\ ~bundleValid THEN LoadFailureMessage
                         ELSE NULL)]_vars

\* C19 witness: the query failed, the fallback failed too, and the
\* invocation has ended with loading false and the load-failure message
C19_Witness ==
  /\ supabase
  /\ ~loading
  /\ error = LoadFailureMessage
  /\ isOffline
  /\ lastResult.helper = "fetchGuests"
  /\ lastResult.failed
  /\ lastOp.op = "fetchGuests"
  /\ nOps > 0

\* C9: whenever the request of a guest helper has failed (an error result
\* or a throw), the helper has returned a failure value: null or false.
C9_FailureBecomesFailureValue ==
  (lastResult.failed /\ lastResult.helper # "fetchGuests") =>
    lastResult.value \in {NULL, "false"}

\* C16: once the create-desk dialog has accepted desk number N, whenever
\* the dialogs can be used a guest can be put on desk N: the create-guest
\* dialog or the edit dialog offers N and its handler can run with N.
C16_CreatedDeskAssignable ==
  \A c \in DOMAIN createDeskCalls :
    (Idle /\ ~loading /\ nOps < OpsBound /\ CanSend) =>
      \/ \E f \in NewNames, p \in PersonCounts :
            ENABLED HandleCreateGuest(f, p, createDeskCalls[c], 1)
      \/ /\ createDeskCalls[c] \in ExistingDeskNumbers
         /\ \E i \in DOMAIN guests, d \in Notes, a \in Tri :
              ENABLED HandleSaveDescription(i, d, a, createDeskCalls[c],
                                            guests[i].person_count)

\* C15: the entries a split adds to the list carry the names passed to
\* onSplitGuest: the entry made for person k (display_order k - 1) has
\* full_name splitNames[k].
C15_SplitEntriesCarryNames ==
  [][/\ \A i \in DOMAIN guests :
          HandleSplitGuestLocal(i) =>
            \A e \in Range(guests') \ Range(guests) :
              e.full_name = PassedSplitNames(guests[i])[e.display_order + 1]
     /\ \A o \in Outcomes :
          SplitDeleteDone(o) =>
            \A e \in Range(guests') \ Range(guests) :
              e.full_name = PassedSplitNames(pc.guest)[e.display_order + 1]]_vars

\* the sum of a number field over the guests of a list
RECURSIVE Total(_, _)
Total(gs, field) ==
  IF gs = <<>> THEN 0 ELSE Head(gs)[field] + Total(Tail(gs), field)

\* C14: the step in which handleSplitGuest updates the list (without a
\* backend, and with one after deleteGuestFromDB was answered) leaves the
\* sum of person_count and the sum of gift_count over the list unchanged.
C14_SplitKeepsTotals ==
  [][((\E i \in DOMAIN guests : HandleSplitGuestLocal(i))
        \/ (\E o \in Outcomes : SplitDeleteDone(o))) =>
       /\ Total(guests', "person_count") = Total(guests, "person_count")
       /\ Total(guests', "gift_count") = Total(guests, "gift_count")]_vars

\* C13: in every reachable state the guests of the list have pairwise
\* distinct ids.
C13_DistinctIds ==
  \A a, b \in DOMAIN guests : a # b => guests[a].id # guests[b].id

(***************************************************************************)
(* Properties of the table positions (checked under SpecPos).              *)
(***************************************************************************)
\* C6: with a backend, once no position upsert is in flight (and none has
\* failed), for every desk dragged since the page was opened the backend
\* row, the local state and local storage all hold the position of the
\* desk's last drag.
C6_LastDragWins ==
  (/\ supabase
   /\ ~posLog.failed
   /\ \A q \in DOMAIN inflight : inflight[q].kind # "upsert") =>
    \A d \in DOMAIN posLog.lastDrag :
      /\ d \in DOMAIN dbPositions
      /\ dbPositions[d] = posLog.lastDrag[d]
      /\ d \in DOMAIN positions
      /\ positions[d] = posLog.lastDrag[d]
      /\ d \in DOMAIN lsPositions
      /\ lsPositions[d] = posLog.lastDrag[d]

\* C12: once the guest list and the backend's table positions have both
\* been loaded (in either order) and before any gesture, every desk is at
\* the backend's position if the backend has one, else at the position
\* local storage held when the page was opened if there is one, else at
\* its default grid position.
C12_LoadedPositionsPrecedence ==
  (/\ ~loading
   /\ posPc.op = "done"
   /\ posLog.read \in {"ok", "local"}
   /\ nOps = 0) =>
    \A d \in DeskSet(guests) :
      /\ d \in DOMAIN positions
      /\ positions[d] =
           IF d \in DOMAIN dbPositions THEN dbPositions[d]
           ELSE IF d \in DOMAIN posLog.saved THEN posLog.saved[d]
           ELSE generateDefaultPositions(DeskNumbers(guests))[d]

(***************************************************************************)
(* Properties of the fixed objects (checked under SpecObj).                *)
(***************************************************************************)
\* C7: the rotation of every fixed object, in the state, in local storage
\* and in the backend, is one of 0, 90, 180, 270; an object rotated k times
\* since it was added or loaded has its first rotation plus 90 k modulo
\* 360, so after four rotations it has its first rotation again.
C7_RotationValid ==
  /\ \A o \in Range(objects) \cup Range(lsObjects) \cup Range(dbObjects) :
        o.rotation \in Rotations
  /\ \A o \in Range(objects) :
        /\ o.id \in DOMAIN objLog
        /\ o.rotation = (objLog[o.id].rot0 + 90 * objLog[o.id].nrot) % 360
        /\ objLog[o.id].nrot = 4 => o.rotation = objLog[o.id].rot0

\* C7 witness: an object that was renamed has been rotated four times
C7_Witness ==
  \E o \in Range(objects) :
    /\ objLog[o.id].nrot = 4
    /\ o.rotation = objLog[o.id].rot0
    /\ o.name = "b"

(***************************************************************************)
(* Properties of all operations (checked under SpecApp).                   *)
(***************************************************************************)
\* C20 as stated: in a step that changes the set of desk numbers, every
\* desk that is in the set before and after keeps its position, every desk
\* new to the set gets its default grid position for the new desk list,
\* and the position map holds the desks of the new set only.
C20_DeskSetChangeFrame ==
  [][DeskNumbers(guests') # DeskNumbers(guests) =>
       /\ DOMAIN positions' = DeskSet(guests')
       /\ \A d \in DeskSet(guests') :
            IF d \in DeskSet(guests)
            THEN d \in DOMAIN positions /\ positions'[d] = positions[d]
            ELSE positions'[d] =
                   generateDefaultPositions(DeskNumbers(guests'))[d]]_vars

\* C20 amended: in a step that changes the set of desk numbers, every desk
\* of the new set that has an entry in the position map keeps it (also an
\* entry loaded from the backend before the desk was in the set), every
\* desk of the new set without an entry gets its default grid position for
\* the new desk list, and the map holds the desks of the new set only.
C20_DeskSetChangeKeepsEntries ==
  [][DeskNumbers(guests') # DeskNumbers(guests) =>
       /\ DOMAIN positions' = DeskSet(guests')
       /\ \A d \in DeskSet(guests') :
            positions'[d] =
              IF d \in DOMAIN positions THEN positions[d]
              ELSE generateDefaultPositions(DeskNumbers(guests'))[d]]_vars

\* C20 witness: desk 1 has lost its last guest and is gone from the map;
\* desk 2 is still where it was, the second place of the grid of two
\* desks, and not at the default of the new desk list
C20_Witness ==
  /\ lastOp.op = "delete"
  /\ DeskSet(guests) = {2}
  /\ DOMAIN positions = {2}
  /\ positions[2] = generateDefaultPositions(<<1, 2>>)[2]
  /\ positions[2] # generateDefaultPositions(<<2>>)[2]

\* C17: a step taken while isOffline is true sends no write to the
\* backend: the only request it may send is the select of fetchGuests.
C17_NoWriteWhileOffline ==
  [][isOffline =>
       \A s \in (DOMAIN inflight') \ (DOMAIN inflight) :
         inflight'[s].kind = "select"]_vars

\* a request answered in this step is not sent again, and a request still
\* in flight is not touched
NoRetryStep ==
  \A s \in DOMAIN inflight :
    /\ s \in DOMAIN inflight' => inflight'[s] = inflight[s]
    /\ s \notin DOMAIN inflight' =>
         \A t \in (DOMAIN inflight') \ (DOMAIN inflight) :
           inflight'[t] # inflight[s]

\* with requests of other operations in flight and no dialog awaiting its
\* own, every gesture the page offers can be made (within the bounds)
NotBlocked ==
  (/\ DOMAIN inflight # {}
   /\ Idle
   /\ ~loading
   /\ nOps < OpsBound
   /\ CanSend) =>
    /\ panel = "guests" =>
         \A i \in DOMAIN guests :
           /\ ENABLED HandleToggleAttendance(i)
           /\ ENABLED HandleDeleteGuest(i)
           /\ ENABLED HandleSaveDescription(i, "n1", "true",
                                            guests[i].desk_no,
                                            guests[i].person_count)
    /\ panel = "tables" =>
         \A d \in DeskSet(guests), p \in DragTargets :
           ENABLED UpdatePosition(d, p)
    /\ panel = "objects" =>
         \A i \in DOMAIN objects :
           /\ ENABLED HandleRotate(i)
           /\ ENABLED EditObjectName(i, "b")
           /\ ENABLED DeleteObject(i)

FoldedLetter(c) ==
  CASE c = "Idot" -> "i"
    [] c = "I" -> "idotless"
    [] c = "S" -> "s"
    [] c \in {"Scedilla", "scedilla"} -> "s"
    [] OTHER -> c

Folded(str) == [k \in DOMAIN str |-> FoldedLetter(str[k])]

\* C11: turkishIncludes answers true exactly when the query, with case
\* folded by the Turkish rules and diacritics ignored, is a substring of
\* the text folded the same way.
C11_SearchFoldsCaseAndDiacritics ==
  searchHit = Includes(Folded(searchText), Folded(searchQuery))

(***************************************************************************)
(* Properties of the default grid.                                         *)
(***************************************************************************)
\* C21: when no layout was saved or stored by an earlier visit and no desk
\* has been dragged, then whatever guests have been created, moved or
\* deleted, no two desks shown on the floor plan are drawn at the same
\* coordinates.
C21_DesksNeverOverlap ==
  (/\ posLog.saved = EmptyMap
   /\ dbPositions = EmptyMap
   /\ posLog.lastDrag = EmptyMap) =>
    \A a, b \in DeskSet(guests) :
      a # b => TablePosition(positions, a) # TablePosition(positions, b)

\* the grid cell the desk at 0-based index i of n desks is given
GridCell(i, n) ==
  LET c == CHOOSE k \in 0..n :
             k * k >= n /\ \A j \in 0..n : j * j >= n => k <= j
  IN  [x |-> (i % c) * 220 + 150, y |-> (i \div c) * 220 + 150]

\* C22: a step of resetPositions leaves, in state and in local storage,
\* the desk at 0-based index i of the ascending list of the n desks at
\* x = (i mod c) * 220 + 150, y = floor(i / c) * 220 + 150, c = ceil(sqrt(n));
\* the desks then have pairwise distinct positions and no desk is where a
\* drag had put it.
C22_ResetPlacesOnGrid ==
  [][ResetPositions =>
       LET deskNumbers == DeskNumbers(guests)
           n == Len(deskNumbers)
       IN  /\ DOMAIN positions' = DeskSet(guests)
           /\ \A i \in 0..(n - 1) :
                 positions'[deskNumbers[i + 1]] = GridCell(i, n)
           /\ lsPositions' = positions'
           /\ \A a, b \in DeskSet(guests) :
                 a # b => positions'[a] # positions'[b]
           /\ \A d \in DOMAIN posLog.lastDrag :
                 d \in DeskSet(guests) =>
                   /\ positions'[d] # posLog.lastDrag[d]
                   /\ lsPositions'[d] # posLog.lastDrag[d]]_vars

\* C22 witness: three desks; a desk was dragged and the backend has stored
\* the drag; the reset that followed has put the three desks on the grid
\* (desk 3 in the second row) and its upsert for desk 3 is in flight
C22_Witness ==
  /\ DeskNumbers(guests) = <<1, 2, 3>>
  /\ \E d \in DOMAIN dbPositions : dbPositions[d] \in DragTargets
  /\ \E q \in DOMAIN inflight :
        /\ inflight[q].kind = "upsert"
        /\ inflight[q].desk_no = 3
        /\ inflight[q].position = [x |-> 150, y |-> 370]
  /\ positions = (1 :> [x |-> 150, y |-> 150] @@ 2 :> [x |-> 370, y |-> 150]
                   @@ 3 :> [x |-> 150, y |-> 370])
  /\ lsPositions = positions

====
